---- MODULE Spec2Model ----
(***************************************************************************)
(* Model of clientinfoam.py: a Streamlit script that is re-run from top to *)
(* bottom on every user interaction.  The state that survives a run is     *)
(* st.session_state (masterlist, debug_issues) and the widget state (the   *)
(* uploaded file and the selectbox value).  Python strings are sequences   *)
(* of one-character strings; every Python value is a record [t, v] of its  *)
(* type name and its text.                                                 *)
(***************************************************************************)
EXTENDS Integers, Sequences, FiniteSets, TLC

(* ------------------------------------------------------------------ *)
(* Bounds of the model                                                 *)
(* ------------------------------------------------------------------ *)
\* Number of script runs explored in one session.
MaxPasses == 3
\* Number of rows of the Name-column tables of the lookup specification.
MaxRows == 2

(* ------------------------------------------------------------------ *)
(* Python values                                                        *)
(* ------------------------------------------------------------------ *)
Digits == {"0", "1", "2", "3", "4", "5", "6", "7", "8", "9"}

PyStr(s) == [t |-> "str", v |-> s]
PyFloat(s) == [t |-> "float", v |-> s]
PyInt(s) == [t |-> "int", v |-> s]
PyTimestamp(s) == [t |-> "Timestamp", v |-> s]
PyNone == [t |-> "NoneType", v |-> <<>>]
\* The missing-cell value pandas gives an empty spreadsheet cell.
NaN == [t |-> "NaN", v |-> <<>>]
NaT == [t |-> "NaT", v |-> <<>>]

EmptyStr == PyStr(<<>>)

\* pd.notna(value)
notna(value) == value.t \notin {"NaN", "NaT", "NoneType"}

\* bool(value) as the conditional expression of the Birthdate line takes it:
\* None is false, an empty string is false, a zero number is false; datetime
\* objects define no __bool__, so a Timestamp and NaT are both true.
AllZero(s) == \A i \in 1..Len(s) : s[i] \in {"0", "."}
truthy(value) ==
    CASE value.t = "NoneType" -> FALSE
      [] value.t = "str" -> Len(value.v) > 0
      [] value.t \in {"float", "int"} -> ~AllZero(value.v)
      [] OTHER -> TRUE

(* ------------------------------------------------------------------ *)
(* Text helpers                                                         *)
(* ------------------------------------------------------------------ *)
\* s.replace(c, '')
Without(s, c) == SelectSeq(s, LAMBDA x : x /= c)

\* s.isdigit(): non-empty and every character a digit
isdigit(s) == Len(s) > 0 /\ \A i \in 1..Len(s) : s[i] \in Digits

Count(s, c) == Cardinality({i \in 1..Len(s) : s[i] = c})

\* Position of the first c in s, Len(s)+1 when there is none.
IndexOf(s, c) ==
    IF \E i \in 1..Len(s) : s[i] = c
    THEN CHOOSE i \in 1..Len(s) : s[i] = c /\ \A j \in 1..(i - 1) : s[j] /= c
    ELSE Len(s) + 1

RECURSIVE StripZeros(_)
StripZeros(s) ==
    IF Len(s) > 1 /\ Head(s) = "0" THEN StripZeros(Tail(s)) ELSE s

\* float(s) accepts the plain decimal notation: digits with at most one
\* point and at least one digit.  (Signs, exponents, "inf" and blanks are
\* outside the cell values the model draws.)
FloatParses(s) == isdigit(Without(s, ".")) /\ Count(s, ".") <= 1

\* Integer and fractional digits of a plain decimal text.
IntPart(s) ==
    LET p == SubSeq(s, 1, IndexOf(s, ".") - 1)
    IN  IF p = <<>> THEN <<"0">> ELSE StripZeros(p)
FracPart(s) == SubSeq(s, IndexOf(s, ".") + 1, Len(s))

\* A decimal text of 310 or more integer digits exceeds the largest double:
\* float() returns inf.
IsInf(s) == Len(IntPart(s)) > 309

RECURSIVE Grouped(_)
\* The thousands grouping of the ',' format option.
Grouped(ip) ==
    IF Len(ip) <= 3 THEN ip
    ELSE Grouped(SubSeq(ip, 1, Len(ip) - 3)) \o <<",">> \o SubSeq(ip, Len(ip) - 2, Len(ip))

\* Two fractional digits (the cell values drawn have at most two).
TwoDigits(fp) == SubSeq(fp \o <<"0", "0">>, 1, 2)

(* ------------------------------------------------------------------ *)
(* The coercions handed to safe_get                                     *)
(* ------------------------------------------------------------------ *)
\* Outcome of calling a coercion: the value it returns, or the exception it raises.
Returns(value) == [exc |-> "", val |-> value]
Raises(name) == [exc |-> name, val |-> PyNone]

\* str(x)
str(x) ==
    IF x.t = "Timestamp"
    THEN x.v \o <<" ", "0", "0", ":", "0", "0", ":", "0", "0">>
    ELSE x.v

\* The float whose decimal text is s, written as Python writes a float.
FloatOfText(s) ==
    IF IsInf(s) THEN PyFloat(<<"i", "n", "f">>)
    ELSE PyFloat(IntPart(s) \o <<".">> \o (IF FracPart(s) = <<>> THEN <<"0">> ELSE FracPart(s)))

\* float(x): a number converts, a text converts when it is a decimal
\* (ValueError otherwise), anything else is a TypeError.
float(x) ==
    CASE x.t \in {"float", "int"} -> Returns(FloatOfText(x.v))
      [] x.t = "str" -> IF FloatParses(x.v) THEN Returns(FloatOfText(x.v))
                        ELSE Raises("ValueError")
      [] OTHER -> Raises("TypeError")

\* int(f) of a float truncates; int(inf) raises OverflowError.
int(f) ==
    IF f.v = <<"i", "n", "f">> THEN Raises("OverflowError")
    ELSE Returns(PyInt(IntPart(f.v)))

\* int(...) of the lambda's argument: the float's exception passes through.
IntOf(f) == IF f.exc /= "" THEN f ELSE int(f.val)

\* lambda x: int(float(str(x)) if str(x).replace('.','').isdigit() else 0)
DelayDaysConvert(x) ==
    IF isdigit(Without(str(x), "."))
    THEN IntOf(float(PyStr(str(x))))
    ELSE Returns(PyInt(<<"0">>))

\* A text pandas reads as a date: the ISO form YYYY-MM-DD.  (Birthdate
\* cells are drawn from ISO dates and from texts with letters in them.)
DateParses(s) ==
    /\ Len(s) = 10
    /\ s[5] = "-" /\ s[8] = "-"
    /\ \A i \in {1, 2, 3, 4, 6, 7, 9, 10} : s[i] \in Digits

\* lambda x: pd.to_datetime(x, errors='coerce'): an unparseable text is
\* coerced to NaT, not raised; a number is nanoseconds since the epoch.
BirthdateConvert(x) ==
    CASE x.t = "Timestamp" -> Returns(x)
      [] x.t = "str" -> IF DateParses(x.v) THEN Returns(PyTimestamp(x.v)) ELSE Returns(NaT)
      [] x.t \in {"float", "int"} ->
            Returns(PyTimestamp(<<"1", "9", "7", "0", "-", "0", "1", "-", "0", "1">>))
      [] OTHER -> Raises("TypeError")

\* Timestamp.strftime('%Y-%m-%d'); NaT.strftime raises ValueError.
strftime(x) ==
    IF x.t = "Timestamp" THEN Returns(PyStr(x.v)) ELSE Raises("ValueError")

\* convert(value) if convert else value
Convert(convert, value) ==
    CASE convert = "" -> Returns(value)
      [] convert = "float" -> float(value)
      [] convert = "to_datetime" -> BirthdateConvert(value)
      [] convert = "delay_days" -> DelayDaysConvert(value)

\* f"{x:,.2f}" of a float, f"{x:,}" of an int
FormatFloat(f) ==
    IF f.v = <<"i", "n", "f">> THEN PyStr(f.v)
    ELSE PyStr(Grouped(IntPart(f.v)) \o <<".">> \o TwoDigits(FracPart(f.v)))
FormatInt(n) == PyStr(Grouped(n.v))

(* ------------------------------------------------------------------ *)
(* safe_get                                                             *)
(* ------------------------------------------------------------------ *)
\* A row is None or a pandas Series: a function from its index (the
\* table's column names) to values.
RowNone == [isNone |-> TRUE, cells |-> <<>>]
Series(cells) == [isNone |-> FALSE, cells |-> cells]

Issue(msg, key, value) == [msg |-> msg, key |-> key, value |-> value]

\* What one call does: the value returned (or the exception that leaves
\* it), and the entries it appends to st.session_state.debug_issues.
Got(ret, issues) == [exc |-> "", ret |-> ret, issues |-> issues]
Escapes(name) == [exc |-> name, ret |-> PyNone, issues |-> <<>>]

\* except (ValueError, TypeError)
Caught(exc) == exc \in {"ValueError", "TypeError"}

\* The try block: c is what convert(value) did.
Converted(key, default, convert, value, c) ==
    IF c.exc = ""
    THEN IF convert = "float"
         THEN Got(IF c.val.t = "float" THEN FormatFloat(c.val) ELSE FormatInt(c.val), <<>>)
         ELSE Got(c.val, <<>>)
    ELSE IF Caught(c.exc)
         THEN Got(default, <<Issue("Invalid format for", key, str(value))>>)
         ELSE Escapes(c.exc)

safe_get(row, key, default, convert) ==
    IF ~row.isNone /\ key \in DOMAIN row.cells
    THEN IF notna(row.cells[key])
         THEN Converted(key, default, convert, row.cells[key],
                        Convert(convert, row.cells[key]))
         ELSE Got(default, <<Issue("Null value for", key, <<>>)>>)
    ELSE Got(default, <<Issue("Missing column", key, <<>>)>>)

(* ------------------------------------------------------------------ *)
(* Tables                                                               *)
(* ------------------------------------------------------------------ *)
\* A DataFrame: its column names in order and its rows in order, each row
\* a function from the column names to values.
DataFrame(columns, rows) == [columns |-> columns, rows |-> rows]

Range(f) == {f[i] : i \in DOMAIN f}

\* df.empty: no rows or no columns
empty(df) == Len(df.rows) = 0 \/ Len(df.columns) = 0

\* pd.DataFrame(columns=[...]) of the session bootstrap
SchemaColumns ==
    << "Name", "Account Key", "Contract Number", "Birthdate", "Repayment Cycle",
       "Delay Days", "Currency Code", "Total Outstanding", "Statement Balance",
       "Statement Minimum Payment", "Statement Overdue Amount",
       "Installment Amount (01)", "Installment Amount (02)", "Email (01)",
       "Residence Add" >>
InitialMasterlist == DataFrame(SchemaColumns, <<>>)

(* ------------------------------------------------------------------ *)
(* Selector and lookup                                                  *)
(* ------------------------------------------------------------------ *)
RECURSIVE dropna(_)
dropna(values) ==
    IF values = <<>> THEN <<>>
    ELSE IF notna(Head(values)) THEN <<Head(values).v>> \o dropna(Tail(values))
    ELSE dropna(Tail(values))

\* masterlist['Name']: the column, or KeyError when the table has none.
HasColumn(df, key) == key \in Range(df.columns)
Column(df, key) == [i \in 1..Len(df.rows) |-> df.rows[i][key]]

\* masterlist['Name'].dropna().tolist() if not masterlist.empty else []
available_names(df) == IF empty(df) THEN <<>> ELSE dropna(Column(df, "Name"))

\* options=[""] + available_names
Options(df) == {<<>>} \cup Range(available_names(df))

Lower(c) == IF c = "A" THEN "a" ELSE IF c = "B" THEN "b" ELSE c

\* str.contains compiles its pattern as a regular expression (regex=True is
\* the default): '.' stands for any character, and a pattern with an
\* unclosed '(' does not compile (re.error).
RegexError(pat) == \E i \in 1..Len(pat) : pat[i] = "("

\* re.search(pat, s, re.IGNORECASE) for a pattern of literals and '.'
RegexSearch(pat, s) ==
    \E i \in 0..(Len(s) - Len(pat)) :
        \A j \in 1..Len(pat) : pat[j] = "." \/ Lower(pat[j]) = Lower(s[i + j])

\* One element of .str.contains(active_search, case=False, na=False): a
\* null or non-text Name is no match.
contains(value, pat) == value.t = "str" /\ RegexSearch(pat, value.v)

\* filtered = masterlist[...contains...]: the indices of the matching rows
filtered(df, active_search) ==
    {i \in 1..Len(df.rows) : contains(df.rows[i]["Name"], active_search)}

\* row = None; if active_search and not empty: row = filtered.iloc[0] when
\* filtered is not empty.  The result is the row's position, 0 for None.
\* filtered.iloc[0] if not filtered.empty
First(f) == IF f /= {} THEN CHOOSE i \in f : \A j \in f : i <= j ELSE 0

\* Variant: the filter runs for the empty query too.
LookupAnyQuery(df, active_search) ==
    IF ~empty(df)
    THEN IF RegexError(active_search) THEN [exc |-> "re.error", row |-> 0]
         ELSE [exc |-> "", row |-> First(filtered(df, active_search))]
    ELSE [exc |-> "", row |-> 0]

Lookup(df, active_search) ==
    IF Len(active_search) > 0 /\ ~empty(df)
    THEN IF RegexError(active_search) THEN [exc |-> "re.error", row |-> 0]
         ELSE [exc |-> "", row |-> First(filtered(df, active_search))]
    ELSE [exc |-> "", row |-> 0]

RowAt(df, i) == IF i = 0 THEN RowNone ELSE Series(df.rows[i])

(* ------------------------------------------------------------------ *)
(* Client Details                                                       *)
(* ------------------------------------------------------------------ *)
Field(label, key, default, convert) ==
    [label |-> label, key |-> key, default |-> default, convert |-> convert]

\* The fifteen st.markdown lines in the order they run.
Fields ==
    << Field("Name", "Name", EmptyStr, ""),
       Field("Account Key", "Account Key", EmptyStr, ""),
       Field("Contract Number", "Contract Number", EmptyStr, ""),
       Field("Birthdate", "Birthdate", PyNone, "to_datetime"),
       Field("Repayment Cycle", "Repayment Cycle", EmptyStr, ""),
       Field("Delay Days", "Delay Days", PyInt(<<"0">>), "delay_days"),
       Field("Currency Code", "Currency Code", EmptyStr, ""),
       Field("Total Outstanding", "Total Outstanding", PyFloat(<<"0", ".", "0">>), "float"),
       Field("Statement Balance", "Statement Balance", PyFloat(<<"0", ".", "0">>), "float"),
       Field("Statement Minimum Payment", "Statement Minum Payment",
             PyFloat(<<"0", ".", "0">>), "float"),
       Field("Statement Overdue Amount", "Statement Overdue Amount",
             PyFloat(<<"0", ".", "0">>), "float"),
       Field("Installment Amount (01)", "Installment Amount (01)",
             PyFloat(<<"0", ".", "0">>), "float"),
       Field("Installment Amount (02)", "Installment Amount (02)",
             PyFloat(<<"0", ".", "0">>), "float"),
       Field("Email (01)", "Email (01)", EmptyStr, ""),
       Field("Residence Add", "Residence Add", EmptyStr, "") >>

BirthdateGet(row) == safe_get(row, Fields[4].key, Fields[4].default, Fields[4].convert)

\* again.strftime('%Y-%m-%d'), after the two calls cond and again
BirthdateFormatted(cond, again) ==
    IF again.exc /= "" THEN [again EXCEPT !.issues = cond.issues \o again.issues]
    ELSE [exc |-> strftime(again.ret).exc, ret |-> strftime(again.ret).val,
          issues |-> cond.issues \o again.issues]

\* Variant: both calls run before the condition is looked at.
BirthdateBothCalls(row, cond) ==
    IF cond.exc /= "" THEN cond
    ELSE IF truthy(cond.ret) THEN BirthdateFormatted(cond, BirthdateGet(row))
    ELSE Got(EmptyStr, cond.issues \o BirthdateGet(row).issues)

\* {safe_get(...).strftime('%Y-%m-%d') if safe_get(...) else ''}: the
\* condition's call (cond) runs first, the call before .strftime only when
\* the condition is true.
BirthdateChoice(row, cond) ==
    IF cond.exc /= "" THEN cond
    ELSE IF truthy(cond.ret) THEN BirthdateFormatted(cond, BirthdateGet(row))
    ELSE Got(EmptyStr, cond.issues)

BirthdateDisplay(row) == BirthdateChoice(row, BirthdateGet(row))

\* The value one st.markdown line interpolates.
FieldDisplay(row, f) ==
    IF f.label = "Birthdate" THEN BirthdateDisplay(row)
    ELSE safe_get(row, f.key, f.default, f.convert)

NothingShown == [exc |-> "", issues |-> <<>>, shown |-> <<>>]

\* What has been rendered once line i has produced d.
Rendered(i, done, d) ==
    [exc |-> d.exc,
     issues |-> done.issues \o d.issues,
     shown |-> IF d.exc = ""
               THEN Append(done.shown, [label |-> Fields[i].label, value |-> d.ret])
               ELSE done.shown]

RECURSIVE ClientDetails(_, _, _)
\* The lines from the i-th on, after `done`; an exception ends the run.
ClientDetails(row, i, done) ==
    IF i > Len(Fields) \/ done.exc /= "" THEN done
    ELSE ClientDetails(row, i + 1, Rendered(i, done, FieldDisplay(row, Fields[i])))

(* ------------------------------------------------------------------ *)
(* The uploaded files the model draws                                   *)
(* ------------------------------------------------------------------ *)
\* st.file_uploader returns None or the file; a file is unreadable or
\* parses to a DataFrame.
NoFile == [kind |-> "none", df |-> DataFrame(<<>>, <<>>)]
Unreadable == [kind |-> "unreadable", df |-> DataFrame(<<>>, <<>>)]
Xlsx(df) == [kind |-> "xlsx", df |-> df]

IsoDate == <<"1", "9", "9", "0", "-", "0", "5", "-", "0", "3">>
NotADate == <<"n", "o", "t", " ", "a", " ", "d", "a", "t", "e">>
\* A text cell of 400 digits.
HugeDigits == [i \in 1..400 |-> "9"]

AmountColumns ==
    {"Total Outstanding", "Statement Balance", "Statement Minimum Payment",
     "Statement Overdue Amount", "Installment Amount (01)", "Installment Amount (02)"}

\* A row of the full schema with every cell valid.
ValidRow(name) ==
    [c \in Range(SchemaColumns) |->
        CASE c = "Name" -> PyStr(name)
          [] c = "Birthdate" -> PyTimestamp(IsoDate)
          [] c = "Delay Days" -> PyFloat(<<"1", "2", ".", "0">>)
          [] c \in AmountColumns -> PyFloat(<<"1", "2", "3", "4", "5", ".", "6">>)
          [] OTHER -> PyStr(<<"x">>)]

GoodFile == Xlsx(DataFrame(SchemaColumns, <<ValidRow(<<"A", "b">>)>>))

\* Two rows; the first has a null, a malformed amount and a malformed
\* number of days.
MixedFile ==
    Xlsx(DataFrame(SchemaColumns,
        << [ValidRow(<<"a", ".">>) EXCEPT
                !["Birthdate"] = NaN,
                !["Delay Days"] = PyStr(<<"1", ".", "2", ".", "3">>),
                !["Total Outstanding"] = PyStr(<<"a", "b", "c">>),
                !["Statement Balance"] = PyTimestamp(IsoDate),
                !["Email (01)"] = NaN],
           [ValidRow(<<"a", "b">>) EXCEPT
                !["Birthdate"] = PyStr(IsoDate),
                !["Delay Days"] = PyStr(<<"a", "b", "c">>)] >>))

BadBirthFile ==
    Xlsx(DataFrame(SchemaColumns,
        << [ValidRow(<<"a">>) EXCEPT !["Birthdate"] = PyStr(NotADate)] >>))

HugeDelayFile ==
    Xlsx(DataFrame(SchemaColumns,
        << [ValidRow(<<"a">>) EXCEPT !["Delay Days"] = PyStr(HugeDigits)] >>))

\* Only two of the schema's columns; the second row's amount is blank.
PartialFile ==
    Xlsx(DataFrame(<<"Name", "Total Outstanding">>,
        << [c \in {"Name", "Total Outstanding"} |->
                IF c = "Name" THEN PyStr(<<"A">>) ELSE PyFloat(<<"5", "0", "0", ".", "5">>)],
           [c \in {"Name", "Total Outstanding"} |->
                IF c = "Name" THEN PyStr(<<"b">>) ELSE NaN] >>))

\* A sheet with rows and no Name column.
NoNameFile ==
    Xlsx(DataFrame(<<"Client", "Total Outstanding">>,
        << [c \in {"Client", "Total Outstanding"} |->
                IF c = "Client" THEN PyStr(<<"a">>) ELSE PyFloat(<<"1", ".", "0">>)] >>))

\* A sheet with the header row only, and a blank sheet.
HeaderOnlyFile == Xlsx(DataFrame(SchemaColumns, <<>>))
BlankFile == Xlsx(DataFrame(<<>>, <<>>))

Files ==
    {Unreadable, GoodFile, MixedFile, BadBirthFile, HugeDelayFile, PartialFile,
     NoNameFile, HeaderOnlyFile, BlankFile}

(* ------------------------------------------------------------------ *)
(* State                                                                *)
(* ------------------------------------------------------------------ *)
VARIABLES
    masterlist,       \* st.session_state.masterlist
    debug_issues,     \* st.session_state.debug_issues
    uploaded_file,    \* the file_uploader's value
    name_suggestion,  \* the selectbox's value (key="name_suggestion")
    loads,            \* history: the file of every load attempt, in order
    pass,             \* history: what the last run of the script did
    call              \* the last direct call of safe_get (extraction specification)

vars == <<masterlist, debug_issues, uploaded_file, name_suggestion, loads, pass, call>>

NoPass ==
    [n |-> 0, click |-> FALSE, exc |-> "", status |-> "", reached |-> FALSE,
     selected |-> <<>>, row |-> 0, drained |-> FALSE, surfaced |-> <<>>,
     afterDrain |-> <<>>, extracted |-> FALSE, appended |-> <<>>, shown |-> <<>>]

NoCall == [called |-> FALSE]

(* ------------------------------------------------------------------ *)
(* One run of the script                                                *)
(* ------------------------------------------------------------------ *)
\* Variant: the parsed table replaces the current one even when it is empty.
LoadResultAlways(ml, file) ==
    IF file.kind = "xlsx" THEN file.df ELSE ml

\* if uploaded_file: try: df = read_excel(...); if not df.empty: masterlist = df
LoadResult(ml, file) ==
    IF file.kind = "xlsx" /\ ~empty(file.df) THEN file.df ELSE ml

\* st.success / st.warning / st.error of the upload block
LoadStatus(file) ==
    CASE file.kind = "none" -> ""
      [] file.kind = "unreadable" -> "error"
      [] empty(file.df) -> "empty"
      [] OTHER -> "success"

Left(df, log, name, p) ==
    [masterlist |-> df, debug_issues |-> log, name_suggestion |-> name, pass |-> p]

\* Lines 93-121 with the row found: the Debug expander empties the log
\* when there is a row and the log has entries; the Client Details block
\* then runs when there is a row or the table is empty.
Drains(row, log) == row /= 0 /\ log /= <<>>
Extracts(df, row) == row /= 0 \/ empty(df)

Displayed(df, log, at, row, details) ==
    Left(df, (IF Drains(row, log) THEN <<>> ELSE log) \o details.issues, at.selected,
         [at EXCEPT !.exc = details.exc, !.row = row,
                    !.drained = Drains(row, log),
                    !.surfaced = IF Drains(row, log) THEN log ELSE <<>>,
                    !.afterDrain = IF Drains(row, log) THEN <<>> ELSE log,
                    !.extracted = Extracts(df, row),
                    !.appended = details.issues,
                    !.shown = details.shown])

Display(df, log, at, row) ==
    Displayed(df, log, at, row,
              IF Extracts(df, row) THEN ClientDetails(RowAt(df, row), 1, NothingShown)
              ELSE NothingShown)

\* Lines 81-90 done: an exception of the filter ends the run.
Looked(df, log, at, found) ==
    IF found.exc /= "" THEN Left(df, log, at.selected, [at EXCEPT !.exc = found.exc])
    ELSE Display(df, log, at, found.row)

\* Line 72 done: the selectbox holds selected_name.
Selected(df, log, base, selected_name) ==
    Looked(df, log, [base EXCEPT !.reached = TRUE, !.selected = selected_name],
           Lookup(df, selected_name))

\* After the upload block, with masterlist = df.  A click on the download
\* button ends the run: to_excel(index=False, ...) lacks its excel_writer
\* argument (TypeError).  masterlist['Name'] of a table with rows and no
\* Name column is a KeyError.  The selectbox keeps the name it holds while
\* that is one of its options and falls back to "" (index=0) otherwise.
Loaded(df, log, base, want) ==
    IF base.click THEN Left(df, log, want, [base EXCEPT !.exc = "TypeError"])
    ELSE IF ~empty(df) /\ ~HasColumn(df, "Name")
    THEN Left(df, log, want, [base EXCEPT !.exc = "KeyError"])
    ELSE Selected(df, log, base, IF want \in Options(df) THEN want ELSE <<>>)

\* The script from top to bottom, as run number n, with the widgets'
\* values: the uploaded file, the name the selectbox holds and whether the
\* download button was clicked.  The result is the session state it leaves
\* and what happened on the way.
Script(n, ml, log, file, want, click) ==
    Loaded(LoadResult(ml, file), log,
           [NoPass EXCEPT !.n = n, !.click = click, !.status = LoadStatus(file)], want)

Leaves(r, file) ==
    /\ masterlist' = r.masterlist
    /\ debug_issues' = r.debug_issues
    /\ name_suggestion' = r.name_suggestion
    /\ pass' = r.pass
    /\ uploaded_file' = file
    /\ loads' = IF file.kind /= "none" THEN Append(loads, file) ELSE loads
    /\ UNCHANGED call

Run(file, want, click) ==
    /\ pass.n < MaxPasses
    /\ Leaves(Script(pass.n + 1, masterlist, debug_issues, file, want, click), file)

(* ------------------------------------------------------------------ *)
(* Session specification                                                *)
(* ------------------------------------------------------------------ *)
Init ==
    /\ masterlist = InitialMasterlist
    /\ debug_issues = <<>>
    /\ uploaded_file = NoFile
    /\ name_suggestion = <<>>
    /\ loads = <<>>
    /\ pass = NoPass
    /\ call = NoCall

\* The user puts a file in the uploader.
UploadFile(f) == Run(f, name_suggestion, FALSE)

\* The user removes the file from the uploader.
RemoveFile == uploaded_file /= NoFile /\ Run(NoFile, name_suggestion, FALSE)

\* The names the selectbox of the last run offered.
Offered ==
    LET df == LoadResult(masterlist, uploaded_file)
    IN  IF ~empty(df) /\ ~HasColumn(df, "Name") THEN {} ELSE Options(df)

\* The user picks an entry of the selectbox.
SelectName(n) == n /= name_suggestion /\ Run(uploaded_file, n, FALSE)

\* The user clicks "Download Current Data as XLSX".
ClickDownload == Run(uploaded_file, name_suggestion, TRUE)

\* Any other interaction re-runs the script with the widgets as they are.
Rerun == Run(uploaded_file, name_suggestion, FALSE)

Next ==
    \/ \E f \in Files : UploadFile(f)
    \/ RemoveFile
    \/ \E n \in Offered : SelectName(n)
    \/ ClickDownload
    \/ Rerun

Spec == Init /\ [][Next]_vars

(* ------------------------------------------------------------------ *)
(* Lookup specification: every small Name column                        *)
(* ------------------------------------------------------------------ *)
NameChars == {"a", "A", ".", "("}
Names == {<<c>> : c \in NameChars} \cup {<<c, d>> : c \in NameChars, d \in NameChars}
NameCells == {NaN} \cup {PyStr(n) : n \in Names}

\* The tables of one column, Name, with 1..MaxRows rows.
NameTables ==
    UNION {{DataFrame(<<"Name">>, [i \in 1..k |-> [c \in {"Name"} |-> col[i]]]) :
                col \in [1..k -> NameCells]} : k \in 1..MaxRows}

\* A session whose table was loaded from such a file.
InitLookup ==
    /\ masterlist \in NameTables
    /\ debug_issues = <<>>
    /\ uploaded_file = NoFile
    /\ name_suggestion = <<>>
    /\ loads = <<>>
    /\ pass = NoPass
    /\ call = NoCall

NextLookup ==
    \/ \E n \in Offered : SelectName(n)
    \/ Rerun

SpecLookup == InitLookup /\ [][NextLookup]_vars

(* ------------------------------------------------------------------ *)
(* Extraction specification: safe_get called on its own                 *)
(* ------------------------------------------------------------------ *)
Cells ==
    {NaN, PyStr(<<"a", "b", "c">>), PyStr(IsoDate), PyStr(NotADate),
     PyStr(<<"1", ".", "2", ".", "3">>), PyStr(<<"1", "2", ".", "0">>),
     PyStr(HugeDigits), PyFloat(<<"1", "2", "3", "4", "5", ".", "6">>),
     PyTimestamp(IsoDate)}

\* None, and the rows of one column.
OneCellRows ==
    {RowNone} \cup
    {Series([c \in {k} |-> v]) :
        k \in {"Name", "Birthdate", "Delay Days", "Total Outstanding"}, v \in Cells}

\* safe_get(row, f.key, f.default, f.convert) for one of the script's
\* fifteen field specifications f.
Extract(row, f) ==
    /\ ~call.called
    /\ call' = [called |-> TRUE, row |-> row, field |-> f,
                got |-> safe_get(row, f.key, f.default, f.convert)]
    /\ debug_issues' = debug_issues \o call'.got.issues
    /\ UNCHANGED <<masterlist, uploaded_file, name_suggestion, loads, pass>>

NextExtract == \E row \in OneCellRows, f \in Range(Fields) : Extract(row, f)

SpecExtract == Init /\ [][NextExtract]_vars

(* ------------------------------------------------------------------ *)
(* Properties                                                           *)
(* ------------------------------------------------------------------ *)
\* The record of the last run's lookup, as cells.
ActiveCells == masterlist.rows[pass.row]

\* The value the last run rendered under a label; None when the run
\* ended before that line.
ShownValue(label) ==
    IF \E i \in 1..Len(pass.shown) : pass.shown[i].label = label
    THEN (CHOOSE e \in Range(pass.shown) : e.label = label).value
    ELSE PyNone

IssuesFor(keys) == {i \in 1..Len(pass.appended) : pass.appended[i].key \in keys}

RECURSIVE LastNonEmptyLoad(_)
\* The table of the most recent load attempt that parsed to a table with
\* rows and columns; the initial table when there is none.
LastNonEmptyLoad(h) ==
    IF h = <<>> THEN InitialMasterlist
    ELSE IF h[Len(h)].kind = "xlsx" /\ Len(h[Len(h)].df.rows) > 0
            /\ Len(h[Len(h)].df.columns) > 0
    THEN h[Len(h)].df
    ELSE LastNonEmptyLoad(SubSeq(h, 1, Len(h) - 1))

\* C1: after any sequence of load attempts the current table is exactly the
\* table of the most recent load that parsed to a non-empty table, or the
\* initial schema-only table when there was none.
C1_TableIsLastNonEmptyLoad == masterlist = LastNonEmptyLoad(loads)

\* A non-empty load followed by an empty or unreadable one has left the
\* earlier table in place.
C1_Witness ==
    /\ Len(loads) >= 2
    /\ LoadStatus(loads[Len(loads)]) \in {"empty", "error"}
    /\ \E i \in 1..(Len(loads) - 1) : LoadStatus(loads[i]) = "success"
    /\ masterlist /= InitialMasterlist

\* q occurs in s as a substring, letter case ignored.
SubstringCI(q, s) ==
    \E i \in 0..(Len(s) - Len(q)) : \A j \in 1..Len(q) : Lower(q[j]) = Lower(s[i + j])

\* The first row whose Name is a text containing q; 0 when there is none.
FirstContaining(df, q) ==
    First({i \in 1..Len(df.rows) :
              df.rows[i]["Name"].t = "str" /\ SubstringCI(q, df.rows[i]["Name"].v)})

\* C2: for a non-empty query the lookup returns the first row whose Name
\* contains the query as a case-insensitive substring, and no record when
\* no row's Name contains it.
C2_FirstSubstringMatch ==
    (pass.reached /\ Len(pass.selected) > 0)
        => pass.row = FirstContaining(masterlist, pass.selected)

\* The fallback paths of an extraction: no record or no such field, a null
\* value, a coercion that fails with ValueError or TypeError.
FellBack(row, f) ==
    \/ row.isNone
    \/ f.key \notin DOMAIN row.cells
    \/ ~notna(row.cells[f.key])
    \/ Caught(Convert(f.convert, row.cells[f.key]).exc)

\* C3: safe_get never raises, and it records a diagnostic exactly when it
\* returns the default through a fallback path.
C3_NeverRaises ==
    call.called =>
        /\ call.got.exc = ""
        /\ (call.got.issues /= <<>>) <=> FellBack(call.row, call.field)
        /\ FellBack(call.row, call.field) => call.got.ret = call.field.default

\* C4: when a run surfaces and drains the log, the entries surfaced are
\* exactly the diagnostics of that run's own extractions, and the log is
\* empty right after the drain.
C4_SurfacedAreThisPass ==
    pass.drained => (pass.surfaced = pass.appended /\ pass.afterDrain = <<>>)

\* C5: at the end of every completed run the log is empty.
C5_LogEmptyAfterPass == (pass.n > 0 /\ pass.exc = "") => debug_issues = <<>>

\* C6: with a non-empty table loaded, the selector, the lookup and the
\* display complete without an uncaught exception.
C6_NoUncaughtFailure ==
    (pass.n > 0 /\ ~pass.click /\ ~empty(masterlist)) => pass.exc = ""

\* C7 as claimed: on a table with a row whose Name is not null, the empty
\* query makes the first such row the active record.
C7_EmptyQueryFindsFirst ==
    (pass.reached /\ pass.selected = <<>> /\ available_names(masterlist) /= <<>>)
        => /\ pass.row /= 0
           /\ notna(ActiveCells["Name"])
           /\ \A j \in 1..(pass.row - 1) : ~notna(masterlist.rows[j]["Name"])

\* C7 amended: the empty query skips the lookup; whatever the table, the
\* run has no active record.
C7_EmptyQuerySkipsLookup ==
    (pass.reached /\ pass.selected = <<>>) => pass.row = 0

\* A run with the empty query on a table that has names to find.
C7_Witness ==
    /\ pass.reached /\ pass.selected = <<>>
    /\ available_names(masterlist) /= <<>>
    /\ pass.row = 0

\* C8: a Birthdate text that is no date shows the empty string with a
\* Birthdate diagnostic and the run completes; a parseable one shows
\* YYYY-MM-DD with no diagnostic.
C8_BirthdateCoercion ==
    (pass.extracted /\ pass.row /= 0 /\ "Birthdate" \in DOMAIN ActiveCells
        /\ ActiveCells["Birthdate"].t = "str")
    => IF DateParses(ActiveCells["Birthdate"].v)
       THEN /\ ShownValue("Birthdate") = PyStr(ActiveCells["Birthdate"].v)
            /\ IssuesFor({"Birthdate"}) = {}
       ELSE /\ pass.exc = ""
            /\ ShownValue("Birthdate") = EmptyStr
            /\ IssuesFor({"Birthdate"}) /= {}

\* C9: a valid number in the record's 'Statement Minimum Payment' column
\* is what the Statement Minimum Payment line shows, formatted as a float,
\* with no diagnostic for the field.
C9_MinimumPaymentFromItsColumn ==
    (pass.extracted /\ pass.row /= 0 /\ pass.exc = ""
        /\ "Statement Minimum Payment" \in DOMAIN ActiveCells
        /\ ActiveCells["Statement Minimum Payment"].t = "float")
    => /\ ShownValue("Statement Minimum Payment")
            = FormatFloat(float(ActiveCells["Statement Minimum Payment"]).val)
       /\ IssuesFor({"Statement Minimum Payment", "Statement Minum Payment"}) = {}

\* C10: in a display pass over a record the number of entries appended to
\* the log is the number of rendered fields that took a fallback path
\* (missing column, null value, failed coercion): one entry each.
C10_OneEntryPerFallback ==
    (pass.extracted /\ pass.row /= 0)
    => Len(pass.appended)
         = Cardinality({i \in 1..Len(pass.shown) : FellBack(Series(ActiveCells), Fields[i])})

\* A completed pass over a record with a null Birthdate and other fallbacks.
C10_Witness ==
    /\ pass.extracted /\ pass.row /= 0 /\ pass.exc = ""
    /\ "Birthdate" \in DOMAIN ActiveCells
    /\ ~notna(ActiveCells["Birthdate"])
    /\ Cardinality(IssuesFor({"Birthdate"})) = 1
    /\ Len(pass.appended) > 2

====
